---- MODULE Spec2Model ----
(***************************************************************************)
(* subseekr2: the concurrent subdomain scanner of src/main.go (the second  *)
(* program of the file, lines 172-392).  main() starts a fixed pool of     *)
(* worker goroutines, enqueues every candidate on the buffered channel     *)
(* jobs, closes it, waits on the WaitGroup, closes results, drains it and  *)
(* hands the reachable results to saveResults.  Each worker resolves the   *)
(* host, measures latency, probes the requested ports, sends a Result and  *)
(* bumps the atomic progress counter.                                      *)
(*                                                                         *)
(* The network is a fixed environment: LookupIP, DialTimeout80 and         *)
(* DialTimeout are functions of their arguments, and the candidate lists   *)
(* range over every sequence of the labels, so every assignment of         *)
(* outcomes to the jobs of a run is explored.                              *)
(***************************************************************************)
EXTENDS Integers, Sequences, FiniteSets, Bags, TLC

(***************************************************************************)
(* Bounds of the model.                                                    *)
(***************************************************************************)
\* longest candidate list read from subdomains.dat
MaxJobs == 2
\* pool size: the source's constant is 200 (main.go:197); the model runs
\* every pool size from 1 up to this bound
maxWorkers == 2

(***************************************************************************)
(* Program constants.                                                      *)
(***************************************************************************)
pingCount == 2
NsPerMs == 1000000

Workers == 1..maxWorkers

(***************************************************************************)
(* The environment: inputs and the network.                                *)
(***************************************************************************)
Domain == "example.com"
Labels == {"www", "mail", "v6", "nx"}

RECURSIVE SeqsUpTo(_, _)
SeqsUpTo(S, n) ==
    IF n = 0 THEN {<<>>}
    ELSE LET shorter == SeqsUpTo(S, n - 1)
         IN  shorter \cup {Append(s, x) : s \in shorter, x \in S}

\* the lists readSubdomains can return: non-empty trimmed lines, duplicates
\* allowed
CandidateLists == SeqsUpTo(Labels, MaxJobs)

\* the lists parsePorts can return
PortLists == {<<>>, <<"443", "80">>}

IP(isV4, str) == [v4 |-> isV4, s |-> str]

\* net.LookupIP: an error, or the host's addresses in resolver order
LookupIP(host) ==
    CASE host = "www.example.com" ->
           [err |-> FALSE,
            addrs |-> <<IP(FALSE, "2001:db8::1"), IP(TRUE, "10.0.0.1"), IP(TRUE, "10.0.0.2")>>]
      [] host = "mail.example.com" ->
           [err |-> FALSE, addrs |-> <<IP(TRUE, "10.0.0.3")>>]
      [] host = "v6.example.com" ->
           [err |-> FALSE, addrs |-> <<IP(FALSE, "2001:db8::6")>>]
      [] OTHER -> [err |-> TRUE, addrs |-> <<>>]

\* net.DialTimeout("tcp", ip:80, timeout) for the pingCount attempts of one
\* measureLatency call: whether the connect succeeded and the elapsed
\* nanoseconds
Attempt(ok, ns) == [ok |-> ok, ns |-> ns]

DialTimeout80(ip) ==
    CASE ip = "10.0.0.1" -> <<Attempt(TRUE, 3000000), Attempt(TRUE, 4000000)>>
      [] ip = "10.0.0.3" -> <<Attempt(FALSE, 2000000), Attempt(TRUE, 7600000)>>
      [] OTHER -> <<Attempt(FALSE, 2000000), Attempt(FALSE, 2000000)>>

\* net.DialTimeout("tcp", host:port, timeout) succeeds
DialTimeout(host, port) ==
    \/ host = "www.example.com" /\ port = "80"
    \/ host = "mail.example.com" /\ port \in {"443", "80"}

(***************************************************************************)
(* Pure functions of the program.                                          *)
(***************************************************************************)
RECURSIVE Gcd(_, _)
Gcd(a, b) == IF b = 0 THEN a ELSE Gcd(b, a % b)

\* a float64 quotient of two integers, kept exact as a reduced fraction
Float(num, den) ==
    IF num = 0 THEN [num |-> 0, den |-> 1]
    ELSE [num |-> num \div Gcd(num, den), den |-> den \div Gcd(num, den)]

RECURSIVE SumOk(_, _)
SumOk(att, k) ==
    IF k = 0 THEN 0
    ELSE SumOk(att, k - 1) + (IF att[k].ok THEN att[k].ns ELSE 0)

RECURSIVE CountOk(_, _)
CountOk(att, k) ==
    IF k = 0 THEN 0
    ELSE CountOk(att, k - 1) + (IF att[k].ok THEN 1 ELSE 0)

\* measureLatency, given the outcomes of its pingCount connect attempts
measureLatencyOf(att) ==
    LET total == SumOk(att, pingCount)
        success == CountOk(att, pingCount)
    IN  IF success = 0 THEN Float(0, 1)
        ELSE Float(total \div NsPerMs, success)

measureLatency(ip) == measureLatencyOf(DialTimeout80(ip))

isPortOpen(host, port) == DialTimeout(host, port)

\* fmt.Sprintf("%s.%s", sub, domain)
FullHost(sub, domain) == sub \o "." \o domain

\* FirstIPv4 without the break: the last IPv4 address wins
RECURSIVE FirstIPv4_NoBreak(_)
FirstIPv4_NoBreak(addrs) ==
    IF addrs = <<>> THEN ""
    ELSE IF FirstIPv4_NoBreak(Tail(addrs)) # "" THEN FirstIPv4_NoBreak(Tail(addrs))
    ELSE IF Head(addrs).v4 THEN Head(addrs).s
    ELSE ""

\* the loop of worker() over ipAddrs: the first address with To4() != nil,
\* "" when there is none
RECURSIVE FirstIPv4(_)
FirstIPv4(addrs) ==
    IF addrs = <<>> THEN ""
    ELSE IF Head(addrs).v4 THEN Head(addrs).s
    ELSE FirstIPv4(Tail(addrs))

NoResult ==
    [Host |-> "", IPAddress |-> "", AvgResponseMs |-> Float(0, 1),
     Reachable |-> FALSE, OpenPorts |-> <<>>]

NoJob == [sub |-> "", seq |-> 0]

(***************************************************************************)
(* State.                                                                  *)
(***************************************************************************)
VARIABLES
    poolSize,       \* number of workers main starts (maxWorkers in the source)
    ports,          \* parsePorts(portInput)
    subdomains,     \* readSubdomains(subdomainFile)
    mainpc,         \* main's position
    i,              \* workers started so far by main's first loop
    next,           \* index of the next candidate main enqueues
    wg,             \* the WaitGroup's counter
    jobs,           \* buffered channel jobs: its queue
    jobsClosed,
    results,        \* buffered channel results: its queue
    resultsClosed,
    allResults,     \* main's slice
    file,           \* the content of SDresults.json
    totalScanned,   \* the package-level uint32
    sink,           \* the (current, total) pairs printed so far
    wpc,            \* each worker's position
    job,            \* each worker's loop variable sub (with its queue position)
    ipv4Addr,       \* each worker's local
    result,         \* each worker's local
    pidx,           \* each worker's position in the range over ports
    current,        \* updateProgress's local
    \* history, per queue position
    deqCount,       \* times the entry was received from jobs
    progCount,      \* updateProgress calls made for the entry
    latCalls,       \* measureLatency calls made for the entry
    probed,         \* the ports isPortOpen was called with, in call order
    sentCount,      \* Results sent for the entry
    sentLog,        \* every Result sent on results, in send order
    \* one call of measureLatency on its own
    attempts,       \* the outcomes of its connect attempts
    avgTime         \* what it returned, NotMeasured before the call

mainVars == <<poolSize, ports, subdomains, mainpc, i, next, allResults, file>>
chanVars == <<wg, jobs, jobsClosed, results, resultsClosed>>
progVars == <<totalScanned, sink>>
workerVars == <<wpc, job, ipv4Addr, result, pidx, current>>
histVars == <<deqCount, progCount, latCalls, probed, sentCount, sentLog>>
latVars == <<attempts, avgTime>>
vars == <<mainVars, chanVars, progVars, workerVars, histVars, latVars>>

N == Len(subdomains)

\* SDresults.json: absent, holding a JSON array of objects, or holding
\* something json.Unmarshal rejects
FileAbsent == [state |-> "absent", data |-> <<>>]

FileCorrupt == [state |-> "corrupt", data |-> <<>>]

FileValid(objects) == [state |-> "valid", data |-> objects]

NotMeasured == [num |-> -1, den |-> 1]

\* make(chan string, len(subdomains)) and make(chan Result, len(subdomains))
JobsCap == N

\* results sized by the pool instead of the candidate list
ResultsCap_PoolSize == poolSize

ResultsCap == N

PoolInit(sizes) ==
    /\ poolSize \in sizes
    /\ ports \in PortLists
    /\ subdomains = <<>>
    /\ mainpc = "read"
    /\ i = 0
    /\ next = 1
    /\ wg = 0
    /\ jobs = <<>>
    /\ jobsClosed = FALSE
    /\ results = <<>>
    /\ resultsClosed = FALSE
    /\ allResults = <<>>
    /\ file = FileAbsent
    /\ totalScanned = 0
    /\ sink = <<>>
    /\ wpc = [w \in Workers |-> "idle"]
    /\ job = [w \in Workers |-> NoJob]
    /\ ipv4Addr = [w \in Workers |-> ""]
    /\ result = [w \in Workers |-> NoResult]
    /\ pidx = [w \in Workers |-> 0]
    /\ current = [w \in Workers |-> 0]
    /\ deqCount = <<>>
    /\ progCount = <<>>
    /\ latCalls = <<>>
    /\ probed = <<>>
    /\ sentCount = <<>>
    /\ sentLog = <<>>

InitWith(sizes) ==
    /\ PoolInit(sizes)
    /\ attempts = <<>>
    /\ avgTime = NotMeasured

Init == InitWith(1..maxWorkers)

(***************************************************************************)
(* main().                                                                 *)
(***************************************************************************)
ZeroCounts(n) == [k \in 1..n |-> 0]

\* readSubdomains succeeded; jobs and results are made with capacity
\* len(subdomains)
MainRead ==
    /\ mainpc = "read"
    /\ \E subs \in CandidateLists :
         /\ subdomains' = subs
         /\ deqCount' = ZeroCounts(Len(subs))
         /\ progCount' = ZeroCounts(Len(subs))
         /\ latCalls' = ZeroCounts(Len(subs))
         /\ sentCount' = ZeroCounts(Len(subs))
         /\ probed' = [k \in 1..Len(subs) |-> <<>>]
    /\ mainpc' = "spawn"
    /\ UNCHANGED <<poolSize, ports, i, next, allResults, file, sentLog>>
    /\ UNCHANGED <<chanVars, progVars, workerVars>>
    /\ UNCHANGED latVars

\* readSubdomains failed: main prints the error and returns
MainReadError ==
    /\ mainpc = "read"
    /\ mainpc' = "error"
    /\ UNCHANGED <<poolSize, ports, subdomains, i, next, allResults, file>>
    /\ UNCHANGED <<chanVars, progVars, workerVars, histVars>>
    /\ UNCHANGED latVars

\* MainSpawn running its loop once too often
MainSpawn_OffByOne ==
    /\ mainpc = "spawn"
    /\ i <= poolSize
    /\ i < maxWorkers
    /\ wg' = wg + 1
    /\ wpc' = [wpc EXCEPT ![i + 1] = "recv"]
    /\ i' = i + 1
    /\ UNCHANGED <<poolSize, ports, subdomains, mainpc, next, allResults, file>>
    /\ UNCHANGED <<jobs, jobsClosed, results, resultsClosed>>
    /\ UNCHANGED <<job, ipv4Addr, result, pidx, current>>
    /\ UNCHANGED <<progVars, histVars>>
    /\ UNCHANGED latVars

\* one iteration of the first loop: wg.Add(1); go worker(...)
MainSpawn ==
    /\ mainpc = "spawn"
    /\ i < poolSize
    /\ wg' = wg + 1
    /\ wpc' = [wpc EXCEPT ![i + 1] = "recv"]
    /\ i' = i + 1
    /\ UNCHANGED <<poolSize, ports, subdomains, mainpc, next, allResults, file>>
    /\ UNCHANGED <<jobs, jobsClosed, results, resultsClosed>>
    /\ UNCHANGED <<job, ipv4Addr, result, pidx, current>>
    /\ UNCHANGED <<progVars, histVars>>
    /\ UNCHANGED latVars

\* MainSpawnDone leaving the loop before every worker is started
MainSpawnDone_Early ==
    /\ mainpc = "spawn"
    /\ mainpc' = "enqueue"
    /\ UNCHANGED <<poolSize, ports, subdomains, i, next, allResults, file>>
    /\ UNCHANGED <<chanVars, progVars, workerVars, histVars>>
    /\ UNCHANGED latVars

\* the first loop ends
MainSpawnDone ==
    /\ mainpc = "spawn"
    /\ i >= poolSize
    /\ mainpc' = "enqueue"
    /\ UNCHANGED <<poolSize, ports, subdomains, i, next, allResults, file>>
    /\ UNCHANGED <<chanVars, progVars, workerVars, histVars>>
    /\ UNCHANGED latVars

\* jobs <- sub: blocks while the buffer is full
MainEnqueue ==
    /\ mainpc = "enqueue"
    /\ next <= N
    /\ Len(jobs) < JobsCap
    /\ jobs' = Append(jobs, [sub |-> subdomains[next], seq |-> next])
    /\ next' = next + 1
    /\ UNCHANGED <<poolSize, ports, subdomains, mainpc, i, allResults, file>>
    /\ UNCHANGED <<wg, jobsClosed, results, resultsClosed>>
    /\ UNCHANGED <<progVars, workerVars, histVars>>
    /\ UNCHANGED latVars

\* MainCloseJobs without the close
MainCloseJobs_NoClose ==
    /\ mainpc = "enqueue"
    /\ next > N
    /\ mainpc' = "wait"
    /\ UNCHANGED <<poolSize, ports, subdomains, i, next, allResults, file>>
    /\ UNCHANGED <<chanVars, progVars, workerVars, histVars>>
    /\ UNCHANGED latVars

\* close(jobs), after the range over subdomains
MainCloseJobs ==
    /\ mainpc = "enqueue"
    /\ next > N
    /\ jobsClosed' = TRUE
    /\ mainpc' = "wait"
    /\ UNCHANGED <<poolSize, ports, subdomains, i, next, allResults, file>>
    /\ UNCHANGED <<wg, jobs, results, resultsClosed>>
    /\ UNCHANGED <<progVars, workerVars, histVars>>
    /\ UNCHANGED latVars

\* MainWait without the barrier: main goes on while workers still run
MainWait_NoBarrier ==
    /\ mainpc = "wait"
    /\ mainpc' = "close"
    /\ UNCHANGED <<poolSize, ports, subdomains, i, next, allResults, file>>
    /\ UNCHANGED <<chanVars, progVars, workerVars, histVars>>
    /\ UNCHANGED latVars

\* wg.Wait() returns when the counter is zero
MainWait ==
    /\ mainpc = "wait"
    /\ wg = 0
    /\ mainpc' = "close"
    /\ UNCHANGED <<poolSize, ports, subdomains, i, next, allResults, file>>
    /\ UNCHANGED <<chanVars, progVars, workerVars, histVars>>
    /\ UNCHANGED latVars

\* close(results)
MainCloseResults ==
    /\ mainpc = "close"
    /\ resultsClosed' = TRUE
    /\ mainpc' = "drain"
    /\ UNCHANGED <<poolSize, ports, subdomains, i, next, allResults, file>>
    /\ UNCHANGED <<wg, jobs, jobsClosed, results>>
    /\ UNCHANGED <<progVars, workerVars, histVars>>
    /\ UNCHANGED latVars

\* Aggregate putting the newest result first
Aggregate_Prepend(all, res) == IF res.Reachable THEN <<res>> \o all ELSE all

\* the body of the range over results: keep the reachable ones
Aggregate(all, res) == IF res.Reachable THEN Append(all, res) ELSE all

\* one iteration of for res := range results
MainDrain ==
    /\ mainpc = "drain"
    /\ results # <<>>
    /\ allResults' = Aggregate(allResults, Head(results))
    /\ results' = Tail(results)
    /\ UNCHANGED <<poolSize, ports, subdomains, mainpc, i, next, file>>
    /\ UNCHANGED <<wg, jobs, jobsClosed, resultsClosed>>
    /\ UNCHANGED <<progVars, workerVars, histVars>>
    /\ UNCHANGED latVars

\* the range over results ends: the channel is closed and empty
MainDrainDone ==
    /\ mainpc = "drain"
    /\ results = <<>>
    /\ resultsClosed
    /\ mainpc' = "save"
    /\ UNCHANGED <<poolSize, ports, subdomains, i, next, allResults, file>>
    /\ UNCHANGED <<chanVars, progVars, workerVars, histVars>>
    /\ UNCHANGED latVars

\* the fields json.Marshal writes for a Result: its omitempty fields only
\* when they are not the zero value
MarshalKeys(r) ==
    {"host", "reachable"}
        \cup (IF r.IPAddress # "" THEN {"ip_address"} ELSE {})
        \cup (IF r.AvgResponseMs # Float(0, 1) THEN {"avg_response_ms"} ELSE {})
        \cup (IF r.OpenPorts # <<>> THEN {"open_ports"} ELSE {})

\* json.Marshal of one Result: a JSON object
Marshal(r) ==
    [f \in MarshalKeys(r) |->
        CASE f = "host" -> r.Host
          [] f = "reachable" -> r.Reachable
          [] f = "ip_address" -> r.IPAddress
          [] f = "avg_response_ms" -> r.AvgResponseMs
          [] f = "open_ports" -> r.OpenPorts]

\* json.Unmarshal of one object into a Result: absent fields keep the zero
\* value
Unmarshal(o) ==
    [Host |-> IF "host" \in DOMAIN o THEN o["host"] ELSE "",
     IPAddress |-> IF "ip_address" \in DOMAIN o THEN o["ip_address"] ELSE "",
     AvgResponseMs |-> IF "avg_response_ms" \in DOMAIN o THEN o["avg_response_ms"]
                       ELSE Float(0, 1),
     Reachable |-> IF "reachable" \in DOMAIN o THEN o["reachable"] ELSE FALSE,
     OpenPorts |-> IF "open_ports" \in DOMAIN o THEN o["open_ports"] ELSE <<>>]

\* what the load at the head of saveResults yields: the file's records, none
\* when os.ReadFile or json.Unmarshal fails
Stored(f) ==
    IF f.state = "valid"
    THEN [n \in 1..Len(f.data) |-> Unmarshal(f.data[n])]
    ELSE <<>>

\* saveResults overwriting the file with the new results alone
saveResults_Replace(f, newResults) ==
    FileValid([n \in 1..Len(newResults) |-> Marshal(newResults[n])])

\* saveResults: load what the file holds, append the new results, marshal
\* the whole (no Result of the program fails to marshal) and write it back
saveResults(f, newResults) ==
    LET existingResults == Stored(f) \o newResults
    IN  FileValid([n \in 1..Len(existingResults) |-> Marshal(existingResults[n])])

\* saveResults(allResults) and the closing "Done" message
MainSave ==
    /\ mainpc = "save"
    /\ file' = saveResults(file, allResults)
    /\ mainpc' = "done"
    /\ UNCHANGED <<poolSize, ports, subdomains, i, next, allResults>>
    /\ UNCHANGED <<chanVars, progVars, workerVars, histVars>>
    /\ UNCHANGED latVars

MainStep ==
    \/ MainRead
    \/ MainReadError
    \/ MainSpawn
    \/ MainSpawnDone
    \/ MainEnqueue
    \/ MainCloseJobs
    \/ MainWait
    \/ MainCloseResults
    \/ MainDrain
    \/ MainDrainDone
    \/ MainSave

(***************************************************************************)
(* worker().                                                               *)
(***************************************************************************)
Bump(f, k) == [f EXCEPT ![k] = @ + 1]

\* WorkerRecv taking the next job while the one it holds is not resolved yet
WorkerRecv_Eager(w) ==
    /\ wpc[w] \in {"recv", "lookup"}
    /\ jobs # <<>>
    /\ job' = [job EXCEPT ![w] = Head(jobs)]
    /\ jobs' = Tail(jobs)
    /\ deqCount' = Bump(deqCount, Head(jobs).seq)
    /\ wpc' = [wpc EXCEPT ![w] = "lookup"]
    /\ UNCHANGED <<wg, jobsClosed, results, resultsClosed>>
    /\ UNCHANGED <<ipv4Addr, result, pidx, current>>
    /\ UNCHANGED <<progCount, latCalls, probed, sentCount, sentLog>>
    /\ UNCHANGED <<mainVars, progVars>>
    /\ UNCHANGED latVars

\* for sub := range jobs: receive the head of the queue
WorkerRecv(w) ==
    /\ wpc[w] = "recv"
    /\ jobs # <<>>
    /\ job' = [job EXCEPT ![w] = Head(jobs)]
    /\ jobs' = Tail(jobs)
    /\ deqCount' = Bump(deqCount, Head(jobs).seq)
    /\ wpc' = [wpc EXCEPT ![w] = "lookup"]
    /\ UNCHANGED <<wg, jobsClosed, results, resultsClosed>>
    /\ UNCHANGED <<ipv4Addr, result, pidx, current>>
    /\ UNCHANGED <<progCount, latCalls, probed, sentCount, sentLog>>
    /\ UNCHANGED <<mainVars, progVars>>
    /\ UNCHANGED latVars

\* WorkerReturn leaving the loop as soon as jobs is closed, drained or not
WorkerReturn_OnClose(w) ==
    /\ wpc[w] = "recv"
    /\ jobsClosed
    /\ wpc' = [wpc EXCEPT ![w] = "returned"]
    /\ wg' = wg - 1
    /\ UNCHANGED <<jobs, jobsClosed, results, resultsClosed>>
    /\ UNCHANGED <<job, ipv4Addr, result, pidx, current>>
    /\ UNCHANGED <<mainVars, progVars, histVars>>
    /\ UNCHANGED latVars

\* the range over jobs ends (closed and empty); the deferred wg.Done() runs
WorkerReturn(w) ==
    /\ wpc[w] = "recv"
    /\ jobs = <<>>
    /\ jobsClosed
    /\ wpc' = [wpc EXCEPT ![w] = "returned"]
    /\ wg' = wg - 1
    /\ UNCHANGED <<jobs, jobsClosed, results, resultsClosed>>
    /\ UNCHANGED <<job, ipv4Addr, result, pidx, current>>
    /\ UNCHANGED <<mainVars, progVars, histVars>>
    /\ UNCHANGED latVars

\* AfterLookup whose no-IPv4 exit continues without updateProgress
AfterLookup_SilentNoIPv4(r) ==
    IF r.err \/ Len(r.addrs) = 0
    THEN [pc |-> "progress", ip |-> ""]
    ELSE IF FirstIPv4(r.addrs) = ""
         THEN [pc |-> "recv", ip |-> ""]
         ELSE [pc |-> "latency", ip |-> FirstIPv4(r.addrs)]

\* AfterLookup without the test of ipv4Addr: a host with no IPv4 address
\* goes on to latency and ports
AfterLookup_NoIPv4Test(r) ==
    IF r.err \/ Len(r.addrs) = 0
    THEN [pc |-> "progress", ip |-> ""]
    ELSE [pc |-> "latency", ip |-> FirstIPv4(r.addrs)]

\* net.LookupIP and the choice of the IPv4 address: where the worker goes
\* next, and the address it keeps
AfterLookup(r) ==
    IF r.err \/ Len(r.addrs) = 0
    THEN [pc |-> "progress", ip |-> ""]
    ELSE IF FirstIPv4(r.addrs) = ""
         THEN [pc |-> "progress", ip |-> ""]
         ELSE [pc |-> "latency", ip |-> FirstIPv4(r.addrs)]

WorkerLookup(w) ==
    /\ wpc[w] = "lookup"
    /\ LET fullHost == FullHost(job[w].sub, Domain)
           after == AfterLookup(LookupIP(fullHost))
       IN  /\ wpc' = [wpc EXCEPT ![w] = after.pc]
           /\ ipv4Addr' = [ipv4Addr EXCEPT ![w] = after.ip]
    /\ UNCHANGED <<job, result, pidx, current>>
    /\ UNCHANGED <<mainVars, chanVars, progVars, histVars>>
    /\ UNCHANGED latVars

\* NewResult without Reachable set
NewResult_Unreachable(fullHost, ip) ==
    [Host |-> fullHost, IPAddress |-> ip, AvgResponseMs |-> measureLatency(ip),
     Reachable |-> FALSE, OpenPorts |-> <<>>]

\* avgTime := measureLatency(ipv4Addr) and the Result literal
NewResult(fullHost, ip) ==
    [Host |-> fullHost, IPAddress |-> ip, AvgResponseMs |-> measureLatency(ip),
     Reachable |-> TRUE, OpenPorts |-> <<>>]

WorkerLatency(w) ==
    /\ wpc[w] = "latency"
    /\ result' = [result EXCEPT ![w] = NewResult(FullHost(job[w].sub, Domain), ipv4Addr[w])]
    /\ latCalls' = Bump(latCalls, job[w].seq)
    /\ pidx' = [pidx EXCEPT ![w] = 1]
    /\ wpc' = [wpc EXCEPT ![w] = IF Len(ports) > 0 THEN "ports" ELSE "send"]
    /\ UNCHANGED <<job, ipv4Addr, current>>
    /\ UNCHANGED <<deqCount, progCount, probed, sentCount, sentLog>>
    /\ UNCHANGED <<mainVars, chanVars, progVars>>
    /\ UNCHANGED latVars

\* ProbePort putting the newest open port first
ProbePort_Prepend(res, port) ==
    IF isPortOpen(res.Host, port)
    THEN [res EXCEPT !.OpenPorts = <<port>> \o @]
    ELSE res

\* the body of the range over ports
ProbePort(res, port) ==
    IF isPortOpen(res.Host, port)
    THEN [res EXCEPT !.OpenPorts = Append(@, port)]
    ELSE res

\* WorkerProbe with the Result shared by the workers instead of local to
\* each
WorkerProbe_SharedResult(w) ==
    /\ wpc[w] = "ports"
    /\ pidx[w] <= Len(ports)
    /\ result' = [result EXCEPT ![1] = ProbePort(@, ports[pidx[w]])]
    /\ probed' = [probed EXCEPT ![job[w].seq] = Append(@, ports[pidx[w]])]
    /\ pidx' = [pidx EXCEPT ![w] = @ + 1]
    /\ wpc' = [wpc EXCEPT ![w] = IF pidx[w] < Len(ports) THEN "ports" ELSE "send"]
    /\ UNCHANGED <<job, ipv4Addr, current>>
    /\ UNCHANGED <<deqCount, progCount, latCalls, sentCount, sentLog>>
    /\ UNCHANGED <<mainVars, chanVars, progVars>>
    /\ UNCHANGED latVars

\* one iteration of the range over ports
WorkerProbe(w) ==
    /\ wpc[w] = "ports"
    /\ pidx[w] <= Len(ports)
    /\ result' = [result EXCEPT ![w] = ProbePort(@, ports[pidx[w]])]
    /\ probed' = [probed EXCEPT ![job[w].seq] = Append(@, ports[pidx[w]])]
    /\ pidx' = [pidx EXCEPT ![w] = @ + 1]
    /\ wpc' = [wpc EXCEPT ![w] = IF pidx[w] < Len(ports) THEN "ports" ELSE "send"]
    /\ UNCHANGED <<job, ipv4Addr, current>>
    /\ UNCHANGED <<deqCount, progCount, latCalls, sentCount, sentLog>>
    /\ UNCHANGED <<mainVars, chanVars, progVars>>
    /\ UNCHANGED latVars

\* WorkerSend as a non-blocking send that gives the Result up
WorkerSend_Drop(w) ==
    /\ wpc[w] = "send"
    /\ wpc' = [wpc EXCEPT ![w] = "progress"]
    /\ UNCHANGED <<job, ipv4Addr, result, pidx, current>>
    /\ UNCHANGED <<mainVars, chanVars, progVars, histVars, latVars>>

\* results <- result: panics on a closed channel, which ends the process;
\* blocks while the buffer is full
WorkerSend(w) ==
    /\ wpc[w] = "send"
    /\ IF resultsClosed
       THEN /\ mainpc' = "panic"
            /\ wpc' = [v \in Workers |-> "panic"]
            /\ UNCHANGED <<results, sentCount, sentLog>>
       ELSE /\ Len(results) < ResultsCap
            /\ results' = Append(results, result[w])
            /\ sentCount' = Bump(sentCount, job[w].seq)
            /\ sentLog' = Append(sentLog, result[w])
            /\ wpc' = [wpc EXCEPT ![w] = "progress"]
            /\ UNCHANGED mainpc
    /\ UNCHANGED <<poolSize, ports, subdomains, i, next, allResults, file>>
    /\ UNCHANGED <<wg, jobs, jobsClosed, resultsClosed>>
    /\ UNCHANGED <<job, ipv4Addr, result, pidx, current>>
    /\ UNCHANGED <<deqCount, progCount, latCalls, probed>>
    /\ UNCHANGED progVars
    /\ UNCHANGED latVars

\* atomic.AddUint32(&totalScanned, 1): the new value.  The counter wraps at
\* 2^32, which no run of at most MaxJobs jobs comes near
AddUint32(v, delta) == v + delta

\* WorkerProgress keeping the value the counter had before the increment
WorkerProgress_OldValue(w) ==
    /\ wpc[w] = "progress"
    /\ totalScanned' = AddUint32(totalScanned, 1)
    /\ current' = [current EXCEPT ![w] = totalScanned]
    /\ progCount' = Bump(progCount, job[w].seq)
    /\ wpc' = [wpc EXCEPT ![w] = "print"]
    /\ UNCHANGED sink
    /\ UNCHANGED <<job, ipv4Addr, result, pidx>>
    /\ UNCHANGED <<deqCount, latCalls, probed, sentCount, sentLog>>
    /\ UNCHANGED <<mainVars, chanVars>>
    /\ UNCHANGED latVars

\* updateProgress, first statement: the atomic increment
WorkerProgress(w) ==
    /\ wpc[w] = "progress"
    /\ totalScanned' = AddUint32(totalScanned, 1)
    /\ current' = [current EXCEPT ![w] = AddUint32(totalScanned, 1)]
    /\ progCount' = Bump(progCount, job[w].seq)
    /\ wpc' = [wpc EXCEPT ![w] = "print"]
    /\ UNCHANGED sink
    /\ UNCHANGED <<job, ipv4Addr, result, pidx>>
    /\ UNCHANGED <<deqCount, latCalls, probed, sentCount, sentLog>>
    /\ UNCHANGED <<mainVars, chanVars>>
    /\ UNCHANGED latVars

\* updateProgress, second statement: the Printf of current / total; the
\* worker then goes back to the range over jobs
WorkerPrint(w) ==
    /\ wpc[w] = "print"
    /\ sink' = Append(sink, <<current[w], N>>)
    /\ wpc' = [wpc EXCEPT ![w] = "recv"]
    /\ job' = [job EXCEPT ![w] = NoJob]
    /\ ipv4Addr' = [ipv4Addr EXCEPT ![w] = ""]
    /\ result' = [result EXCEPT ![w] = NoResult]
    /\ pidx' = [pidx EXCEPT ![w] = 0]
    /\ current' = [current EXCEPT ![w] = 0]
    /\ UNCHANGED totalScanned
    /\ UNCHANGED <<mainVars, chanVars, histVars>>
    /\ UNCHANGED latVars

WorkerStep(w) ==
    \/ WorkerRecv(w)
    \/ WorkerReturn(w)
    \/ WorkerLookup(w)
    \/ WorkerLatency(w)
    \/ WorkerProbe(w)
    \/ WorkerSend(w)
    \/ WorkerProgress(w)
    \/ WorkerPrint(w)

(***************************************************************************)
(* The program.                                                            *)
(***************************************************************************)
Next ==
    \/ MainStep
    \/ \E w \in Workers : WorkerStep(w)

Spec == Init /\ [][Next]_vars

\* the Go scheduler runs every runnable goroutine
Fairness ==
    /\ WF_vars(MainStep)
    /\ \A w \in Workers : WF_vars(WorkerStep(w))

FairSpec == Spec /\ Fairness

(***************************************************************************)
(* measureLatency on its own: one call, for every combination of outcomes  *)
(* of its connect attempts.                                                *)
(***************************************************************************)
\* elapsed times of a connect attempt, in nanoseconds (time.Duration)
ElapsedNs == {400000, 600000, 1000000, 3000000}

AttemptOutcomes == {Attempt(ok, ns) : ok \in BOOLEAN, ns \in ElapsedNs}

AttemptSeqs == [1..pingCount -> AttemptOutcomes]

LatencyInit ==
    /\ PoolInit({1})
    /\ attempts \in AttemptSeqs
    /\ avgTime = NotMeasured

\* the call: measureLatency runs its attempts and returns
Measure ==
    /\ avgTime = NotMeasured
    /\ avgTime' = measureLatencyOf(attempts)
    /\ UNCHANGED attempts
    /\ UNCHANGED <<mainVars, chanVars, progVars, workerVars, histVars>>

SpecLatency == LatencyInit /\ [][Measure]_vars

(***************************************************************************)
(* saveResults over a sequence of invocations of the program, each reduced *)
(* to the allResults it hands over.                                        *)
(***************************************************************************)
\* the stored records beyond which no further invocation is started
MaxStored == 3

\* Results as the scanner builds them, with and without the omitempty
\* fields, and a record of an earlier format of the file
SampleResults ==
    {[Host |-> "www.example.com", IPAddress |-> "10.0.0.1",
      AvgResponseMs |-> Float(7, 2), Reachable |-> TRUE, OpenPorts |-> <<"80">>],
     [Host |-> "mail.example.com", IPAddress |-> "10.0.0.3",
      AvgResponseMs |-> Float(0, 1), Reachable |-> TRUE, OpenPorts |-> <<>>],
     [Host |-> "old.example.com", IPAddress |-> "",
      AvgResponseMs |-> Float(0, 1), Reachable |-> FALSE, OpenPorts |-> <<>>]}

\* what SDresults.json can hold when the program starts
FileStates ==
    {FileAbsent, FileCorrupt}
        \cup {FileValid([n \in 1..Len(rs) |-> Marshal(rs[n])]) : rs \in SeqsUpTo(SampleResults, 1)}

\* main has drained results and is about to call saveResults
RunsInit ==
    /\ poolSize = 1
    /\ ports = <<>>
    /\ subdomains = <<>>
    /\ mainpc = "save"
    /\ i = 1
    /\ next = 1
    /\ wg = 0
    /\ jobs = <<>>
    /\ jobsClosed = TRUE
    /\ results = <<>>
    /\ resultsClosed = TRUE
    /\ allResults \in SeqsUpTo(SampleResults, MaxJobs)
    /\ file \in FileStates
    /\ totalScanned = 0
    /\ sink = <<>>
    /\ wpc = [w \in Workers |-> IF w = 1 THEN "returned" ELSE "idle"]
    /\ job = [w \in Workers |-> NoJob]
    /\ ipv4Addr = [w \in Workers |-> ""]
    /\ result = [w \in Workers |-> NoResult]
    /\ pidx = [w \in Workers |-> 0]
    /\ current = [w \in Workers |-> 0]
    /\ deqCount = <<>>
    /\ progCount = <<>>
    /\ latCalls = <<>>
    /\ probed = <<>>
    /\ sentCount = <<>>
    /\ sentLog = <<>>
    /\ attempts = <<>>
    /\ avgTime = NotMeasured

\* the program is run again and reaches its saveResults call with the
\* results of that run
NextRun ==
    /\ mainpc = "done"
    /\ Len(Stored(file)) < MaxStored
    /\ mainpc' = "save"
    /\ allResults' \in SeqsUpTo(SampleResults, MaxJobs)
    /\ UNCHANGED <<poolSize, ports, subdomains, i, next, file>>
    /\ UNCHANGED <<chanVars, progVars, workerVars, histVars, latVars>>

RunsNext ==
    \/ MainSave
    \/ NextRun

SpecRuns == RunsInit /\ [][RunsNext]_vars

\* the program built with any pool size, zero included
InitAnyPool == InitWith(0..maxWorkers)

SpecAnyPool == InitAnyPool /\ [][Next]_vars

(***************************************************************************)
(* Vocabulary of the properties.                                           *)
(***************************************************************************)
\* the host of queue entry k has an IPv4 address, by the resolver alone
HasIPv4(k) ==
    LET r == LookupIP(FullHost(subdomains[k], Domain))
    IN  /\ ~r.err
        /\ \E j \in 1..Len(r.addrs) : r.addrs[j].v4

\* every worker main started has returned
AllReturned == \A w \in 1..poolSize : wpc[w] = "returned"

\* wg.Wait() has returned
Joined == mainpc \in {"close", "drain", "save", "done"}

Range(s) == {s[k] : k \in DOMAIN s}

BagOfSeq(s) == [x \in Range(s) |-> Cardinality({k \in DOMAIN s : s[k] = x})]

\* C1: once wg.Wait() has returned the progress counter equals the number of
\* candidates, and every queue entry has had exactly one updateProgress
\* call, whichever exit of the loop body it took; no entry ever has two.
C1_ProgressReachesN ==
    /\ \A k \in 1..N : progCount[k] <= 1 /\ progCount[k] <= deqCount[k]
    /\ Joined =>
         /\ totalScanned = N
         /\ \A k \in 1..N : progCount[k] = 1

\* a joined run of the full pool with a job that sent a Result and a job
\* that left by an early exit
C1_Witness ==
    /\ Joined
    /\ poolSize = maxWorkers
    /\ totalScanned = N
    /\ \E k1, k2 \in 1..N : sentCount[k1] = 1 /\ sentCount[k2] = 0

\* C2: results is closed only when every worker has returned, no send ever
\* hits the closed channel, and the drain starts only when nothing is left
\* to produce a result.
C2_ShutdownBarrier ==
    /\ mainpc # "panic"
    /\ (resultsClosed \/ mainpc \in {"drain", "save", "done"}) =>
         /\ i = poolSize
         /\ AllReturned
         /\ wg = 0
         /\ jobs = <<>>

\* results closed after a run in which every worker of the pool worked and
\* results were sent
C2_Witness ==
    /\ resultsClosed
    /\ poolSize = maxWorkers
    /\ Len(sentLog) >= 2
    /\ AllReturned

\* C3: a job whose lookup fails, returns no address or returns no IPv4
\* address never gets a measureLatency call, an isPortOpen call or a
\* Result; once the workers are joined its only trace is one progress
\* increment.
C3_UnresolvedSilent ==
    \A k \in 1..N :
        ~HasIPv4(k) =>
            /\ latCalls[k] = 0
            /\ probed[k] = <<>>
            /\ sentCount[k] = 0
            /\ \A n \in 1..Len(sentLog) :
                 sentLog[n].Host # FullHost(subdomains[k], Domain)
            /\ Joined => progCount[k] = 1

\* a finished run with ports requested, holding a failed lookup and an
\* answer without IPv4
C3_Witness ==
    /\ mainpc = "done"
    /\ ports # <<>>
    /\ \E k \in 1..N : subdomains[k] = "v6" /\ progCount[k] = 1
    /\ \E k \in 1..N : subdomains[k] = "nx" /\ progCount[k] = 1

\* C4: what main hands to saveResults is, in arrival order, every Result
\* sent on results: one per job that resolved to an IPv4 address (duplicate
\* labels included), none for the others, all with Reachable set.
C4_SavedIsSent ==
    /\ \A k \in 1..N : sentCount[k] <= 1
    /\ \A n \in 1..Len(sentLog) : sentLog[n].Reachable
    /\ mainpc \in {"drain", "save", "done"} =>
         /\ allResults \o results = sentLog
         /\ \A k \in 1..N : sentCount[k] = (IF HasIPv4(k) THEN 1 ELSE 0)
    /\ mainpc \in {"save", "done"} =>
         /\ allResults = sentLog
         /\ BagOfSeq([n \in 1..Len(allResults) |-> allResults[n].Host])
              = BagOfSeq(SelectSeq([k \in 1..N |-> FullHost(subdomains[k], Domain)],
                                   LAMBDA h : ~LookupIP(h).err /\ FirstIPv4(LookupIP(h).addrs) # ""))
    /\ mainpc = "done" => Stored(file) = allResults

\* a finished run of the full pool over a duplicated resolved label, with
\* its two results
C4_Witness ==
    /\ mainpc = "done"
    /\ poolSize = maxWorkers
    /\ Len(allResults) >= 2
    /\ \E k1, k2 \in 1..N : k1 # k2 /\ subdomains[k1] = "www" /\ subdomains[k2] = "www"

\* what one worker alone produces for a candidate list, in list order
RECURSIVE ProbeAll(_, _, _)
ProbeAll(res, ps, k) ==
    IF k > Len(ps) THEN res ELSE ProbeAll(ProbePort(res, ps[k]), ps, k + 1)

RECURSIVE SequentialResults(_, _)
SequentialResults(subs, ps) ==
    IF subs = <<>> THEN <<>>
    ELSE LET fullHost == FullHost(Head(subs), Domain)
             after == AfterLookup(LookupIP(fullHost))
             rest == SequentialResults(Tail(subs), ps)
         IN  IF after.pc = "latency"
             THEN <<ProbeAll(NewResult(fullHost, after.ip), ps, 1)>> \o rest
             ELSE rest

Content(res) ==
    [Host |-> res.Host, IPAddress |-> res.IPAddress,
     Reachable |-> res.Reachable, OpenPorts |-> res.OpenPorts]

ContentBag(s) == BagOfSeq([n \in 1..Len(s) |-> Content(s[n])])

\* C5: for every pool size the finished run holds the same multiset of
\* Results (host, address, reachable, open ports) as one worker taking the
\* candidates one after the other.
C5_SameAsSequential ==
    mainpc \in {"save", "done"} =>
        ContentBag(allResults) = ContentBag(SequentialResults(subdomains, ports))

\* a finished run of the full pool with ports requested and two resolved
\* hosts of different content
C5_Witness ==
    /\ mainpc = "done"
    /\ poolSize = maxWorkers
    /\ ports # <<>>
    /\ \E a, b \in 1..Len(allResults) :
         /\ allResults[a].Host # allResults[b].Host
         /\ allResults[a].OpenPorts # allResults[b].OpenPorts
         /\ allResults[b].OpenPorts # <<>>

\* C6: a queue entry is received at most once, two workers never hold the
\* same entry, and once every worker has returned each entry has been
\* received exactly once and jobs is empty.
C6_DequeuedOnce ==
    /\ \A k \in 1..N : deqCount[k] <= 1
    /\ \A w1, w2 \in Workers :
         (w1 # w2 /\ job[w1] # NoJob) => job[w1].seq # job[w2].seq
    /\ (mainpc \in {"wait", "close", "drain", "save", "done"} /\ AllReturned) =>
         /\ jobs = <<>>
         /\ \A k \in 1..N : deqCount[k] = 1

\* every worker has returned after the pool shared a full candidate list
C6_Witness ==
    /\ mainpc = "wait"
    /\ AllReturned
    /\ poolSize = maxWorkers
    /\ N = MaxJobs
    /\ \A k \in 1..N : deqCount[k] = 1

\* C7: under fair scheduling a scan that has read its candidates always
\* runs to completion: every worker returns, results is closed and drained,
\* and main reaches its end.
C7_RunsToCompletion ==
    (mainpc = "spawn") ~>
        (mainpc = "done" /\ AllReturned /\ wg = 0 /\ resultsClosed /\ results = <<>>)

\* the full pool has finished a full candidate list
C7_Witness ==
    /\ mainpc = "done"
    /\ poolSize = maxWorkers
    /\ N = MaxJobs
    /\ totalScanned = N
    /\ AllReturned

C9_PopulatedBeforeConsumed ==
    (\E k \in 1..N : deqCount[k] > 0) => (jobsClosed /\ next > N)

\* C9: every worker is started before the first candidate is enqueued, so
\* workers receive while main still enqueues; jobs never holds more than N
\* entries and is closed only after all N are enqueued.
C9_WorkersStartedFirst ==
    /\ mainpc = "spawn" => (jobs = <<>> /\ next = 1)
    /\ next > 1 => i = poolSize
    /\ Len(jobs) <= N
    /\ jobsClosed => next = N + 1

\* a worker holds a job while main is still enqueueing
C9_Witness ==
    /\ mainpc = "enqueue"
    /\ next <= N
    /\ \E w \in Workers : wpc[w] = "lookup" /\ deqCount[job[w].seq] = 1

\* C10: once all workers have finished, the last pair printed shows
\* current equal to total.
C10_LastPrintIsTotal ==
    (Joined /\ sink # <<>>) => sink[Len(sink)][1] = N

\* C11: every Result a worker builds or sends has Reachable set; with an
\* empty port list no isPortOpen call is made and OpenPorts stays empty, so
\* OpenPorts is non-empty only under a non-empty port list; once the workers
\* are joined every job with an IPv4 address has its Result.
C11_ReachableAndPorts ==
    /\ \A n \in 1..Len(sentLog) :
         /\ sentLog[n].Reachable
         /\ ports = <<>> => sentLog[n].OpenPorts = <<>>
         /\ sentLog[n].OpenPorts # <<>> => Len(ports) > 0
    /\ \A w \in Workers :
         wpc[w] \in {"ports", "send"} =>
             /\ result[w].Reachable
             /\ ports = <<>> => result[w].OpenPorts = <<>>
    /\ ports = <<>> => \A k \in 1..N : probed[k] = <<>>
    /\ Joined => \A k \in 1..N : HasIPv4(k) => sentCount[k] = 1

\* a finished run without ports whose resolved jobs were all sent
C11_Witness ==
    /\ mainpc = "done"
    /\ ports = <<>>
    /\ N = MaxJobs
    /\ Len(sentLog) = N
    /\ \A n \in 1..Len(allResults) : allResults[n].Reachable /\ allResults[n].OpenPorts = <<>>

RECURSIVE SumNs(_, _)
SumNs(att, S) ==
    IF S = {} THEN 0
    ELSE LET k == CHOOSE x \in S : TRUE
         IN  att[k].ns + SumNs(att, S \ {k})

\* the attempts that connected
Succeeded(att) == {k \in DOMAIN att : att[k].ok}

\* C12: measureLatency makes pingCount attempts; it returns 0 when none
\* succeeds and otherwise the mean, in milliseconds, of the elapsed times of
\* the successful attempts alone.
C12_MeanOfSuccessful ==
    avgTime # NotMeasured =>
        /\ Len(attempts) = pingCount
        /\ IF Succeeded(attempts) = {}
           THEN avgTime = Float(0, 1)
           ELSE avgTime = Float(SumNs(attempts, Succeeded(attempts)),
                                Cardinality(Succeeded(attempts)) * NsPerMs)

\* the ports of the requested list that accept a connection on host
OpenOf(host) == SelectSeq(ports, LAMBDA p : DialTimeout(host, p))

\* queue entry k is held by a worker
Held(k) == \E w \in Workers : job[w].seq = k

\* C13: the isPortOpen calls of a job follow the requested list, entry by
\* entry and once each; the Result's OpenPorts is the sublist of the
\* requested ports that connected; a job's Result is sent, and the worker
\* moves to its next job, only after the whole list was probed.
C13_ProbesInOrder ==
    /\ \A k \in 1..N :
         /\ Len(probed[k]) <= Len(ports)
         /\ probed[k] = SubSeq(ports, 1, Len(probed[k]))
         /\ (HasIPv4(k) /\ (sentCount[k] = 1 \/ (deqCount[k] = 1 /\ ~Held(k)))) =>
                probed[k] = ports
    /\ \A w \in Workers :
         /\ wpc[w] = "ports" =>
              /\ Len(probed[job[w].seq]) = pidx[w] - 1
              /\ result[w].OpenPorts =
                   SelectSeq(probed[job[w].seq], LAMBDA p : DialTimeout(result[w].Host, p))
         /\ wpc[w] = "send" =>
              /\ probed[job[w].seq] = ports
              /\ result[w].OpenPorts = OpenOf(result[w].Host)
    /\ \A n \in 1..Len(sentLog) : sentLog[n].OpenPorts = OpenOf(sentLog[n].Host)

\* a finished run with two ports requested: one host with both open, in
\* the requested order, and one with only the second
C13_Witness ==
    /\ mainpc = "done"
    /\ ports = <<"443", "80">>
    /\ \E a, b \in 1..Len(allResults) :
         /\ allResults[a].OpenPorts = <<"443", "80">>
         /\ allResults[b].OpenPorts = <<"80">>
    /\ \A k \in 1..N : probed[k] = ports

\* queue entry k was received and updateProgress has not counted it yet
InFlight(k) == deqCount[k] >= 1 /\ progCount[k] = 0

\* C14: the jobs received but not yet counted are never more than the pool
\* size; each is held by exactly one worker, which is between its receive
\* and its progress increment; a worker at the receive holds no job.
C14_InFlightBounded ==
    /\ Cardinality({k \in 1..N : InFlight(k)}) <= poolSize
    /\ \A k \in 1..N :
         InFlight(k) =>
             /\ Cardinality({w \in 1..poolSize : job[w].seq = k}) = 1
             /\ \A w \in Workers :
                  job[w].seq = k =>
                      wpc[w] \in {"lookup", "latency", "ports", "send", "progress"}
    /\ \A w \in Workers :
         wpc[w] \in {"idle", "recv", "returned"} => job[w] = NoJob

\* a pool of one worker busy with a job while another waits in the queue
C14_Witness ==
    /\ poolSize = 1
    /\ N = MaxJobs
    /\ Len(jobs) = N - 1
    /\ jobsClosed
    /\ Cardinality({k \in 1..N : InFlight(k)}) = 1
    /\ wpc[1] = "send"

\* the workers between their increment and their print
Printing == {w \in Workers : wpc[w] = "print"}

\* C15: every increment yields one emission: the values of current printed
\* or about to be printed are distinct and lie in 1..totalScanned, total is
\* N in every emission, and once the workers are joined the sink holds N
\* emissions whose values of current are exactly 1..N.
C15_OneEmissionPerJob ==
    /\ \A n \in 1..Len(sink) :
         /\ sink[n][1] \in 1..totalScanned
         /\ sink[n][2] = N
    /\ \A a, b \in 1..Len(sink) : a # b => sink[a][1] # sink[b][1]
    /\ \A w \in Printing :
         /\ current[w] \in 1..totalScanned
         /\ \A n \in 1..Len(sink) : sink[n][1] # current[w]
         /\ \A v \in Printing : v # w => current[v] # current[w]
    /\ Len(sink) + Cardinality(Printing) = totalScanned
    /\ Joined =>
         /\ Len(sink) = N
         /\ {sink[n][1] : n \in 1..Len(sink)} = 1..N

\* the full pool has finished a full list and printed out of order
C15_Witness ==
    /\ Joined
    /\ poolSize = maxWorkers
    /\ N = MaxJobs
    /\ Len(sink) = N
    /\ sink[1][1] = N

\* ip is the first IPv4 address of the answer for host, in answer order
IsFirstIPv4(host, ip) ==
    LET addrs == LookupIP(host).addrs
    IN  \E j \in 1..Len(addrs) :
            /\ addrs[j].v4
            /\ \A m \in 1..(j - 1) : ~addrs[m].v4
            /\ addrs[j].s = ip

\* the lookup for queue entry k answered, with no IPv4 address
OnlyIPv6(k) ==
    LET r == LookupIP(FullHost(subdomains[k], Domain))
    IN  /\ ~r.err
        /\ r.addrs # <<>>
        /\ \A j \in 1..Len(r.addrs) : ~r.addrs[j].v4

\* C16: a Result's IPAddress is the first IPv4 address of the host's answer
\* whatever precedes it, and its latency is the one measured against that
\* address; a host answered without IPv4 leaves what a failed lookup
\* leaves: no latency call, no probe, no Result, one progress increment.
C16_FirstIPv4 ==
    /\ \A n \in 1..Len(sentLog) :
         /\ IsFirstIPv4(sentLog[n].Host, sentLog[n].IPAddress)
         /\ sentLog[n].AvgResponseMs = measureLatencyOf(DialTimeout80(sentLog[n].IPAddress))
    /\ \A w \in Workers :
         wpc[w] = "latency" => IsFirstIPv4(FullHost(job[w].sub, Domain), ipv4Addr[w])
    /\ \A k \in 1..N :
         OnlyIPv6(k) =>
             /\ latCalls[k] = 0
             /\ probed[k] = <<>>
             /\ sentCount[k] = 0
             /\ Joined => progCount[k] = 1

\* a finished run holding the Result of the host whose answer lists an IPv6
\* address, then two IPv4 addresses, and a host answered with IPv6 only
C16_Witness ==
    /\ mainpc = "done"
    /\ \E n \in 1..Len(allResults) :
         /\ allResults[n].Host = "www.example.com"
         /\ allResults[n].IPAddress = "10.0.0.1"
         /\ allResults[n].AvgResponseMs = [num |-> 7, den |-> 2]
    /\ \E k \in 1..N : OnlyIPv6(k) /\ progCount[k] = 1

\* s is an initial segment of t
IsPrefix(s, t) == Len(s) <= Len(t) /\ s = SubSeq(t, 1, Len(s))

C18_SendsNeverBlock ==
    /\ (mainpc = "enqueue" /\ next <= N) => Len(jobs) < JobsCap
    /\ \A w \in Workers :
         wpc[w] = "send" => (~resultsClosed /\ Len(results) < ResultsCap)
    /\ Len(jobs) <= N
    /\ Len(results) <= N
    /\ ~Joined => results = sentLog

\* a worker about to send while results already holds every other Result
\* of a full list and main waits
C18_Witness ==
    /\ mainpc = "wait"
    /\ N = MaxJobs
    /\ Len(results) = N - 1
    /\ \E w \in Workers : wpc[w] = "send"

RECURSIVE SumSeq(_)
SumSeq(s) == IF s = <<>> THEN 0 ELSE Head(s) + SumSeq(Tail(s))

\* the resolved jobs updateProgress has counted
CountedResolved == {k \in 1..N : HasIPv4(k) /\ progCount[k] = 1}

C19_CounterBounds ==
    /\ totalScanned >= 0
    /\ totalScanned <= SumSeq(deqCount)
    /\ SumSeq(deqCount) <= N
    /\ Len(sentLog) >= Cardinality(CountedResolved)
    /\ \A k \in CountedResolved : sentCount[k] = 1
    /\ (totalScanned = N /\ mainpc \notin {"drain", "save", "done"}) =>
         /\ results = sentLog
         /\ Len(results) = Cardinality({k \in 1..N : HasIPv4(k)})

\* C19: the counter stays between 0 and the number of jobs received so far,
\* which is at most N; it changes by +1 only; the Result of a resolved job
\* is sent before the job is counted, so when the counter reads N every
\* Result of the run is in results.
C19_CounterFollowsResults ==
    /\ []C19_CounterBounds
    /\ [][totalScanned' = totalScanned \/ totalScanned' = totalScanned + 1]_vars

\* the counter reads N while a worker has not printed yet and every job of
\* a full list resolved
C19_Witness ==
    /\ totalScanned = N
    /\ N = MaxJobs
    /\ mainpc = "wait"
    /\ Len(results) = N
    /\ \E w \in Workers : wpc[w] = "print"

====
